---------------------------- MODULE Spec2Model ----------------------------
(***************************************************************************)
(* A model of the WikiGraphRAG parse pipeline:                              *)
(*   src/src/parse/xml_loader.py   LazyObjectHandler / load_xml             *)
(*   src/src/parse/wikipedia.py    page mapper, paragraph alignment and the *)
(*                                 batch_update buffer                      *)
(*   src/src/parse/progress_indicator.py, src/src/infra/connections_mongodb *)
(*                                                                          *)
(* Python strings are modelled as sequences of one-character strings, so    *)
(* that split, replace, count, join and the regular expressions of the      *)
(* source are computed character by character as the code computes them.    *)
(***************************************************************************)
EXTENDS Integers, Sequences, FiniteSets, TLC

(***************************************************************************)
(* Python str / re primitives on character sequences                        *)
(***************************************************************************)

MinOf(S) == CHOOSE x \in S : \A y \in S : x <= y

\* s[i:i+len(p)] == p  (i is 1-based)
StartsWithAt(s, p, i) ==
    /\ i >= 1
    /\ i + Len(p) - 1 <= Len(s)
    /\ SubSeq(s, i, i + Len(p) - 1) = p

\* str.startswith
StartsWith(s, p) == StartsWithAt(s, p, 1)

\* str.find(p, from): the first 1-based index >= from where p occurs, 0 if none
Find(s, p, from) ==
    LET I == {i \in from..Len(s) : StartsWithAt(s, p, i)}
    IN  IF I = {} THEN 0 ELSE MinOf(I)

\* s[i:] with a 1-based i
Suffix(s, i) == SubSeq(s, i, Len(s))

\* str.split(c) for a one-character separator: never an empty list
RECURSIVE Split(_, _)
Split(s, c) ==
    LET i == Find(s, <<c>>, 1)
    IN  IF i = 0 THEN <<s>>
        ELSE <<SubSeq(s, 1, i - 1)>> \o Split(Suffix(s, i + 1), c)

\* sep.join(parts)
RECURSIVE Join(_, _)
Join(parts, sep) ==
    IF parts = <<>> THEN <<>>
    ELSE IF Len(parts) = 1 THEN parts[1]
    ELSE parts[1] \o sep \o Join(Tail(parts), sep)

\* str.count(c) for a one-character c
Count(s, c) == Cardinality({i \in 1..Len(s) : s[i] = c})

\* str.replace(c, "") for a one-character c
RemoveChar(s, c) == SelectSeq(s, LAMBDA ch : ch # c)

\* set(list)
Range(f) == {f[i] : i \in DOMAIN f}

\* the characters the source's patterns and literals are made of
REF_OPEN   == <<"<", "r", "e", "f", ">">>
REF_CLOSE  == <<"<", "/", "r", "e", "f", ">">>
LINK_OPEN  == <<"[", "[">>
LINK_CLOSE == <<"]", "]">>
TMPL_OPEN  == <<"{", "{">>
TMPL_CLOSE == <<"}", "}">>
NL         == "\n"
Whitespace == {" ", "\n", "\t"}
\* the backquote character cannot be written in a TLA+ string: it is this atom
BACKQUOTE  == "backquote"
DecorChars == {"*", "\"", BACKQUOTE, "'"}
Digits     == <<"0", "1", "2", "3", "4", "5", "6", "7", "8", "9">>
DigitSet   == Range(Digits)

\* a lazy  OPEN .*? CLOSE  anchored at i: the 1-based index of the last matched
\* character, 0 if the pattern does not match at i ('.' does not match "\n")
LazyBlockEnd(s, open, close, i) ==
    IF ~StartsWithAt(s, open, i) THEN 0
    ELSE LET j == Find(s, close, i + Len(open))
         IN  IF j = 0 THEN 0
             ELSE IF \E k \in (i + Len(open))..(j - 1) : s[k] = NL THEN 0
             ELSE j + Len(close) - 1

\* re.sub("<ref>.*?</ref>", "", s)
RECURSIVE StripRefs(_)
StripRefs(s) ==
    IF s = <<>> THEN <<>>
    ELSE LET e == LazyBlockEnd(s, REF_OPEN, REF_CLOSE, 1)
         IN  IF e # 0 THEN StripRefs(Suffix(s, e + 1))
             ELSE <<s[1]>> \o StripRefs(Tail(s))

\* the link pattern  \[\[ ... ([^\]]+)\]\]  anchored at i: the index of the
\* first "]" of the closing "]]", 0 if there is no match at i.  The body
\* s[i+2 .. k-1] holds no "]" and is not empty.
LinkBodyEnd(s, i) ==
    IF ~StartsWithAt(s, LINK_OPEN, i) THEN 0
    ELSE LET k == Find(s, <<"]">>, i + 2)
         IN  IF k = 0 \/ k = i + 2 THEN 0
             ELSE IF ~StartsWithAt(s, LINK_CLOSE, k) THEN 0
             ELSE k

\* group 1 of  \[\[(?:[^|\]]*\|)?([^]]+)\]\]  for a link body: the text after
\* the first "|" when that text is not empty, the whole body otherwise
DisplayText(body) ==
    LET p == Find(body, <<"|">>, 1)
    IN  IF p # 0 /\ p < Len(body) THEN Suffix(body, p + 1) ELSE body

\* re.sub(r'\[\[(?:[^|\]]*\|)?([^]]+)\]\]', r'\1', s)
RECURSIVE LinksToDisplayText(_)
LinksToDisplayText(s) ==
    IF s = <<>> THEN <<>>
    ELSE LET k == LinkBodyEnd(s, 1)
         IN  IF k # 0
             THEN DisplayText(SubSeq(s, 3, k - 1)) \o LinksToDisplayText(Suffix(s, k + 2))
             ELSE <<s[1]>> \o LinksToDisplayText(Tail(s))

\* re.sub(r'[*"`\']|({{.*?}})', "", s)
RECURSIVE StripDecorations(_)
StripDecorations(s) ==
    IF s = <<>> THEN <<>>
    ELSE IF s[1] \in DecorChars THEN StripDecorations(Tail(s))
    ELSE LET e == LazyBlockEnd(s, TMPL_OPEN, TMPL_CLOSE, 1)
         IN  IF e # 0 THEN StripDecorations(Suffix(s, e + 1))
             ELSE <<s[1]>> \o StripDecorations(Tail(s))

\* [(m.start(), m.group(1)) for m in re.finditer("\[\[([^\]]+)\]\]", s)], with
\* 0-based starts as Python reports them; off is the 0-based offset of s[1]
RECURSIVE LinkMatches(_, _)
LinkMatches(s, off) ==
    IF s = <<>> THEN <<>>
    ELSE LET k == LinkBodyEnd(s, 1)
         IN  IF k # 0
             THEN <<<<off, SubSeq(s, 3, k - 1)>>>> \o LinkMatches(Suffix(s, k + 2), off + k + 1)
             ELSE LinkMatches(Tail(s), off + 1)

\* re.findall(ref_pattern, s)
FindLinks(s) ==
    LET m == LinkMatches(s, 0) IN [i \in 1..Len(m) |-> m[i][2]]

\* x.split("|")[0].split("#")[0]
LinkTarget(x) == Split(Split(x, "|")[1], "#")[1]

(***************************************************************************)
(* int(), str(), datetime.fromisoformat() and str.upper()                   *)
(***************************************************************************)

\* the result of a conversion that raises ValueError instead of returning
Invalid == [ok |-> FALSE, value |-> 0]
Valid(v) == [ok |-> TRUE, value |-> v]

Lowercase == <<"a", "b", "c", "d", "e", "f", "g", "h", "i", "j", "k", "l", "m",
               "n", "o", "p", "q", "r", "s", "t", "u", "v", "w", "x", "y", "z">>
Uppercase == <<"A", "B", "C", "D", "E", "F", "G", "H", "I", "J", "K", "L", "M",
               "N", "O", "P", "Q", "R", "S", "T", "U", "V", "W", "X", "Y", "Z">>

\* str.upper() of one ASCII character
Upper(c) ==
    IF \E i \in DOMAIN Lowercase : Lowercase[i] = c
    THEN Uppercase[CHOOSE i \in DOMAIN Lowercase : Lowercase[i] = c]
    ELSE c

\* str.strip()
RECURSIVE LStrip(_)
LStrip(s) == IF s # <<>> /\ s[1] \in Whitespace THEN LStrip(Tail(s)) ELSE s
RECURSIVE RStrip(_)
RStrip(s) ==
    IF s # <<>> /\ s[Len(s)] \in Whitespace THEN RStrip(SubSeq(s, 1, Len(s) - 1)) ELSE s
Strip(s) == RStrip(LStrip(s))

DigitValue(c) == (CHOOSE i \in DOMAIN Digits : Digits[i] = c) - 1

\* the value of a string of decimal digits
RECURSIVE DigitsValue(_)
DigitsValue(s) ==
    IF s = <<>> THEN 0
    ELSE 10 * DigitsValue(SubSeq(s, 1, Len(s) - 1)) + DigitValue(s[Len(s)])

\* int(s): surrounding whitespace, an optional sign, then decimal digits that
\* single underscores may separate; Invalid where Python raises ValueError
ParseInt(s) ==
    LET t    == Strip(s)
        sign == t # <<>> /\ t[1] \in {"+", "-"}
        body == IF sign THEN Tail(t) ELSE t
        ok   == /\ body # <<>>
                /\ \A i \in DOMAIN body : body[i] \in DigitSet \cup {"_"}
                /\ body[1] # "_" /\ body[Len(body)] # "_"
                /\ \A i \in 1..(Len(body) - 1) : ~(body[i] = "_" /\ body[i + 1] = "_")
        v    == DigitsValue(RemoveChar(body, "_"))
    IN  IF ~ok THEN Invalid
        ELSE IF sign /\ t[1] = "-" THEN Valid(0 - v) ELSE Valid(v)

\* str(n) for n >= 0
RECURSIVE IntToStr(_)
IntToStr(n) ==
    IF n < 10 THEN <<Digits[n + 1]>>
    ELSE IntToStr(n \div 10) \o <<Digits[(n % 10) + 1]>>

AllDigits(s) == \A i \in DOMAIN s : s[i] \in DigitSet

DaysInMonth(y, m) ==
    IF m \in {4, 6, 9, 11} THEN 30
    ELSE IF m # 2 THEN 31
    ELSE IF (y % 4 = 0 /\ y % 100 # 0) \/ y % 400 = 0 THEN 29 ELSE 28

\* datetime.fromisoformat(s) for the forms YYYY-MM-DD and YYYY-MM-DD?HH:MM:SS
\* (any one separator character): the parsed fields, or Invalid where Python
\* raises ValueError.  Fractions and UTC offsets do not occur in the model.
FromIsoFormat(s) ==
    LET dateOk == /\ Len(s) >= 10
                  /\ AllDigits(SubSeq(s, 1, 4)) /\ s[5] = "-"
                  /\ AllDigits(SubSeq(s, 6, 7)) /\ s[8] = "-"
                  /\ AllDigits(SubSeq(s, 9, 10))
        y == DigitsValue(SubSeq(s, 1, 4))
        m == DigitsValue(SubSeq(s, 6, 7))
        d == DigitsValue(SubSeq(s, 9, 10))
        dateIn == y >= 1 /\ m \in 1..12 /\ d >= 1 /\ d <= DaysInMonth(y, m)
        timeOk == /\ Len(s) = 19
                  /\ AllDigits(SubSeq(s, 12, 13)) /\ s[14] = ":"
                  /\ AllDigits(SubSeq(s, 15, 16)) /\ s[17] = ":"
                  /\ AllDigits(SubSeq(s, 18, 19))
        hh == DigitsValue(SubSeq(s, 12, 13))
        mi == DigitsValue(SubSeq(s, 15, 16))
        ss == DigitsValue(SubSeq(s, 18, 19))
    IN  IF ~dateOk THEN Invalid
        ELSE IF ~dateIn THEN Invalid
        ELSE IF Len(s) = 10 THEN Valid(<<y, m, d, 0, 0, 0>>)
        ELSE IF ~timeOk THEN Invalid
        ELSE IF hh > 23 \/ mi > 59 \/ ss > 59 THEN Invalid
        ELSE Valid(<<y, m, d, hh, mi, ss>>)

(***************************************************************************)
(* _get_page_location                                                       *)
(***************************************************************************)

\* None, where the code holds None in place of a str
None == <<"None">>

\* capitalize(s), the helper nested in _get_page_location
capitalize(s) ==
    IF Len(s) <= 1 THEN [i \in 1..Len(s) |-> Upper(s[i])]
    ELSE <<Upper(s[1])>> \o Tail(s)

\* re.sub("[\s_]+", "_", s)
RECURSIVE CollapseSeparators(_)
CollapseSeparators(s) ==
    IF s = <<>> THEN <<>>
    ELSE IF s[1] \in Whitespace \cup {"_"}
         THEN IF Len(s) >= 2 /\ s[2] \in Whitespace \cup {"_"}
              THEN CollapseSeparators(Tail(s))
              ELSE <<"_">> \o CollapseSeparators(Tail(s))
         ELSE <<s[1]>> \o CollapseSeparators(Tail(s))

PageLocation(title, namespace) == [title |-> title, namespace |-> namespace]

TALK == <<"T", "a", "l", "k">>

\* _get_page_location(namespace_set, title).  The first assignment of
\* sanitized_title (the part before "|") is overwritten by the second, which
\* starts again from the raw title.
GetPageLocation(namespace_set, title) ==
    LET sanitized_title    == Strip(CollapseSeparators(title))
        capitalized_title  == capitalize(sanitized_title)
        detected_namespace == Split(title, ":")[1]
    IN  IF StartsWith(title, <<"W", ":">>) \/ StartsWith(title, <<"w", ":">>)
        THEN PageLocation(capitalize(Suffix(sanitized_title, 3)), None)
        ELSE IF detected_namespace = TALK
        THEN PageLocation(Split(capitalized_title, "/")[1], TALK)
        ELSE PageLocation(capitalized_title,
                          IF detected_namespace \in namespace_set /\ detected_namespace # <<>>
                          THEN detected_namespace ELSE None)

(***************************************************************************)
(* _extract_references, _map_dict_to_page_model, build_dict_to_page_mapper  *)
(***************************************************************************)

\* A record tree as load_xml delivers it, flattened to the fields the mapper
\* reads:  name = dto["name"], title = dto["title"]["content"],
\* id = dto["id"]["content"], redirect = dto["redirect"]["attrs"]["title"]
\* (None when the page has no redirect child),
\* timestamp = dto["revision"]["timestamp"]["content"],
\* text = dto["revision"]["text"]["content"], and namespaces = the <namespace>
\* children of dto["namespaces"], each with its key attribute and its content.
Dto(name, title, id, redirect, timestamp, text, namespaces) ==
    [name |-> name, title |-> title, id |-> id, redirect |-> redirect,
     timestamp |-> timestamp, text |-> text, namespaces |-> namespaces]

\* _extract_references(content): every statement that computed the matches is
\* commented out, what is left returns the empty list
ExtractReferences(content) == <<>>

\* f"{namespace}:"
FormatNamespacePrefix(namespace) ==
    (IF namespace = None THEN <<"N", "o", "n", "e">> ELSE namespace) \o <<":">>

\* the list comprehension that fills model.references
PageReferences(content, namespace_set) ==
    LET raw  == ExtractReferences(content)
        kept == SelectSeq(raw, LAMBDA m :
                    /\ m[2] # <<>>
                    /\ m[2] # FormatNamespacePrefix(GetPageLocation(namespace_set, m[2]).namespace))
    IN  [i \in 1..Len(kept) |-> <<GetPageLocation(namespace_set, kept[i][2]), kept[i][1]>>]

NoPage == [kind |-> "None"]

\* the page model built from the converted fields
PageModel(dto, namespace_set, location, id, last_edit) ==
    IF dto.redirect # None
    THEN [kind |-> "RedirectPage", id |-> id, title |-> location.title,
          namespace |-> location.namespace, last_edit |-> last_edit,
          target |-> GetPageLocation(namespace_set, dto.redirect)]
    ELSE [kind |-> "ContentPage", id |-> id, title |-> location.title,
          namespace |-> location.namespace, last_edit |-> last_edit,
          content |-> dto.text,
          references |-> PageReferences(dto.text, namespace_set)]

\* a mapper that catches the conversion error and returns None for the record
MapFieldsSkipsBadRecord(dto, namespace_set, id, last_edit) ==
    IF ~id.ok \/ ~last_edit.ok
    THEN [status |-> "none", error |-> "", page |-> NoPage]
    ELSE [status |-> "page", error |-> "",
          page |-> PageModel(dto, namespace_set,
                             GetPageLocation(namespace_set, dto.title),
                             id.value, last_edit.value)]

\* int(page["id"]["content"]) and
\* datetime.fromisoformat(page["revision"]["timestamp"]["content"][:-1])
MapFields(dto, namespace_set, id, last_edit) ==
    IF ~id.ok \/ ~last_edit.ok
    THEN [status |-> "raise", error |-> "ValueError", page |-> NoPage]
    ELSE [status |-> "page", error |-> "",
          page |-> PageModel(dto, namespace_set,
                             GetPageLocation(namespace_set, dto.title),
                             id.value, last_edit.value)]

\* _map_dict_to_page_model(page, parse_page_location_fn) with
\* parse_page_location_fn = partial(_get_page_location, namespace_set):
\* the page model, or the exception the mapping raises
MapDictToPageModel(dto, namespace_set) ==
    MapFields(dto, namespace_set, ParseInt(dto.id),
              FromIsoFormat(SubSeq(dto.timestamp, 1, Len(dto.timestamp) - 1)))

\* the value of parse_page_location_fn before a siteinfo record was seen
NoNamespaces == {None}

\* on_element of build_dict_to_page_mapper: what it returns or raises for a
\* record tree, and the namespace set parse_page_location_fn is bound to
\* afterwards.  A single <namespace> child is a dict and no list (iterating it
\* yields its keys, and x["attrs"] raises TypeError); none at all is a KeyError.
ElementMapper(dto, namespace_set) ==
    IF dto.name = "siteinfo"
    THEN IF Len(dto.namespaces) = 0
         THEN [status |-> "raise", error |-> "KeyError", page |-> NoPage, fn |-> namespace_set]
         ELSE IF Len(dto.namespaces) = 1
         THEN [status |-> "raise", error |-> "TypeError", page |-> NoPage, fn |-> namespace_set]
         ELSE IF \E i \in DOMAIN dto.namespaces : ~ParseInt(dto.namespaces[i].key).ok
         THEN [status |-> "raise", error |-> "ValueError", page |-> NoPage, fn |-> namespace_set]
         ELSE [status |-> "none", error |-> "", page |-> NoPage,
               fn |-> {dto.namespaces[i].content : i \in DOMAIN dto.namespaces}]
    ELSE IF dto.name = "page"
    THEN IF namespace_set = NoNamespaces
         THEN [status |-> "raise", error |-> "TypeError", page |-> NoPage, fn |-> namespace_set]
         ELSE MapDictToPageModel(dto, namespace_set) @@ [fn |-> namespace_set]
    ELSE [status |-> "none", error |-> "", page |-> NoPage, fn |-> namespace_set]

(***************************************************************************)
(* iterate_pages_from_export_file.on_element: paragraph alignment           *)
(***************************************************************************)

\* the paragraph length of the filter  len(p) > 10
MinParagraphLen == 10

\* page_paragraphs: the lines longer than the threshold, all lines if none is
PageParagraphs(content) ==
    LET lines == Split(content, NL)
        long  == SelectSeq(lines, LAMBDA p : Len(p) > MinParagraphLen)
    IN  IF Len(long) = 0 THEN lines ELSE long

\* set(text.replace("'", "").split(' '))
RefParagraphWordSet(text) == Range(Split(RemoveChar(text, "'"), " "))

\* the candidate compared at page position par_ind (1-based) for an external
\* paragraph whose text holds bge3_newline_count line breaks: the slice
\* page_paragraphs[par_ind : min(par_ind + bge3_newline_count, len)] joined
Candidate(page_paragraphs, par_ind, bge3_newline_count) ==
    IF bge3_newline_count > 0
    THEN LET last == IF par_ind - 1 + bge3_newline_count < Len(page_paragraphs)
                     THEN par_ind - 1 + bge3_newline_count ELSE Len(page_paragraphs)
         IN  Join(SubSeq(page_paragraphs, par_ind, last), <<NL>>)
    ELSE page_paragraphs[par_ind]

\* set(content_cleaned.split(' '))
ContentWordSet(content_minus_refs) ==
    Range(Split(StripDecorations(LinksToDisplayText(content_minus_refs)), " "))

\* the test  score >= 0.5
ScoreAtLeastThreshold(ref_paragraph_word_set, content_word_set) ==
    LET r == Cardinality(ref_paragraph_word_set)
        c == Cardinality(content_word_set)
        a == r - Cardinality(ref_paragraph_word_set \ content_word_set)
        b == c - Cardinality(content_word_set \ ref_paragraph_word_set)
    IN  4 * a * b >= r * c

\* score > 0.5 with score = sqrt(score1 * score2),
\* score1 = 1 - |ref - content| / |ref|, score2 = 1 - |content - ref| / |content|:
\* in exact arithmetic 4 * |ref & content|^2 > |ref| * |content|.  The double
\* precision result agrees with it for all word sets of fewer than 40 words.
ScoreAboveThreshold(ref_paragraph_word_set, content_word_set) ==
    LET r == Cardinality(ref_paragraph_word_set)
        c == Cardinality(content_word_set)
        a == r - Cardinality(ref_paragraph_word_set \ content_word_set)
        b == c - Cardinality(content_word_set \ ref_paragraph_word_set)
    IN  4 * a * b > r * c

\* bge3_paragraph_refs[id], a defaultdict(list)
RefsOf(bge3_paragraph_refs, id) ==
    IF id \in DOMAIN bge3_paragraph_refs THEN bge3_paragraph_refs[id] ELSE <<>>

\* bge3_paragraph_refs[id] = refs
SetRefs(bge3_paragraph_refs, id, refs) ==
    [x \in DOMAIN bge3_paragraph_refs \cup {id} |->
        IF x = id THEN refs ELSE bge3_paragraph_refs[x]]

\* the loop  for par_ind, par in enumerate(page_paragraphs)  from position
\* par_ind (1-based) on, with bge3_ind (1-based) the external paragraph being
\* looked for: the final bge3_paragraph_refs and the positions matched
RECURSIVE AlignFrom(_, _, _, _, _, _)
AlignFrom(page_paragraphs, bge3_paragraphs, par_ind, bge3_ind, refs, matched) ==
    IF par_ind > Len(page_paragraphs)
    THEN [refs |-> refs, matched |-> matched]
    ELSE LET text  == bge3_paragraphs[bge3_ind].text
             par   == Candidate(page_paragraphs, par_ind, Count(text, NL))
             content_minus_refs == StripRefs(par)
         IN  IF ScoreAboveThreshold(RefParagraphWordSet(text),
                                    ContentWordSet(content_minus_refs))
             THEN LET links == FindLinks(content_minus_refs)
                      refs2 == SetRefs(refs, bge3_paragraphs[bge3_ind].id,
                                       [i \in 1..Len(links) |-> LinkTarget(links[i])])
                      m2    == Append(matched, par_ind)
                  IN  IF bge3_ind + 1 > Len(bge3_paragraphs)
                      THEN [refs |-> refs2, matched |-> m2]
                      ELSE AlignFrom(page_paragraphs, bge3_paragraphs,
                                     par_ind + 1, bge3_ind + 1, refs2, m2)
             ELSE AlignFrom(page_paragraphs, bge3_paragraphs,
                            par_ind + 1, bge3_ind, refs, matched)

EmptyRefs == [x \in {} |-> <<>>]

\* lines 294-327: matched[k] is the page position accepted for the k-th
\* external paragraph of the group
Align(page_paragraphs, bge3_paragraphs) ==
    AlignFrom(page_paragraphs, bge3_paragraphs, 1, 1, EmptyRefs, <<>>)

(***************************************************************************)
(* iterate_pages_from_export_file.on_element: the facts of a page           *)
(***************************************************************************)

\* UpdateOne({"id": rec_id}, {"$setOnInsert": {...}}, upsert=True)
mongo_add_paragraph(rec_id, title, content, embedding) ==
    [op |-> "setOnInsert", id |-> rec_id, title |-> title, type |-> "Paragraph",
     content |-> content, embedding |-> embedding]

\* UpdateOne({"id": rec_id}, {"$addToSet": {"references": {...}}}, upsert=True)
mongo_add_ref(rec_id, ref_id, ref_title) ==
    [op |-> "addToSet", id |-> rec_id, ref_id |-> ref_id, ref_title |-> ref_title]

\* par["title"] + "_" + str(ind)
ParagraphId(title, ind) == title \o <<"_">> \o IntToStr(ind)

\* One step of the emission loops: the fact appended to batch_update and
\* whether the statement that follows the append is the batch-size test
\* (the test stands inside the  for ref in ...  loop only).
EmitOp(fact, flush_test) == [fact |-> fact, flush_test |-> flush_test]

\* an emission loop in which the first paragraph links to its successor only
ParagraphOpsChain(bge3_paragraphs, bge3_paragraph_refs, ind) ==
    LET par    == bge3_paragraphs[ind + 1]
        n      == Len(bge3_paragraphs)
        par_id == ParagraphId(par.title, ind)
        refs   == RefsOf(bge3_paragraph_refs, par.id)
        node   == <<EmitOp(mongo_add_paragraph(par_id, par.title, par.text, par.embedding), FALSE)>>
        group  == IF ind < n - 1
                  THEN <<EmitOp(mongo_add_ref(par_id, ParagraphId(par.title, ind + 1), par.title), FALSE)>>
                  ELSE <<>>
        cross  == [r \in 1..Len(refs) |->
                      EmitOp(mongo_add_ref(par_id, refs[r] \o <<"_", "0">>, refs[r]), TRUE)]
    IN  node \o group \o cross

\* the appends of the body of  for ind, par in enumerate(bge3_paragraphs)
\* for the paragraph at ind (0-based), in program order
ParagraphOps(bge3_paragraphs, bge3_paragraph_refs, ind) ==
    LET par    == bge3_paragraphs[ind + 1]
        n      == Len(bge3_paragraphs)
        par_id == ParagraphId(par.title, ind)
        refs   == RefsOf(bge3_paragraph_refs, par.id)
        node   == <<EmitOp(mongo_add_paragraph(par_id, par.title, par.text, par.embedding), FALSE)>>
        group  == IF ind = 0
                  THEN [t \in 1..(n - 1) |->
                          EmitOp(mongo_add_ref(par_id, ParagraphId(par.title, t), par.title), FALSE)]
                  ELSE IF ind < n - 1
                  THEN <<EmitOp(mongo_add_ref(par_id, ParagraphId(par.title, ind + 1), par.title), FALSE)>>
                  ELSE <<>>
        cross  == [r \in 1..Len(refs) |->
                      EmitOp(mongo_add_ref(par_id, refs[r] \o <<"_", "0">>, refs[r]), TRUE)]
    IN  node \o group \o cross

\* an emission loop that passes over the paragraphs of the group that the
\* alignment loop did not match
RECURSIVE EmitOpsFromAlignedOnly(_, _, _)
EmitOpsFromAlignedOnly(bge3_paragraphs, bge3_paragraph_refs, ind) ==
    IF ind >= Len(bge3_paragraphs) THEN <<>>
    ELSE (IF bge3_paragraphs[ind + 1].id \in DOMAIN bge3_paragraph_refs
          THEN ParagraphOps(bge3_paragraphs, bge3_paragraph_refs, ind)
          ELSE <<>>)
         \o EmitOpsFromAlignedOnly(bge3_paragraphs, bge3_paragraph_refs, ind + 1)

\* the appends of lines 341-364 for the whole group, in program order
RECURSIVE EmitOpsFrom(_, _, _)
EmitOpsFrom(bge3_paragraphs, bge3_paragraph_refs, ind) ==
    IF ind >= Len(bge3_paragraphs) THEN <<>>
    ELSE ParagraphOps(bge3_paragraphs, bge3_paragraph_refs, ind)
         \o EmitOpsFrom(bge3_paragraphs, bge3_paragraph_refs, ind + 1)

EmitOps(bge3_paragraphs, bge3_paragraph_refs) ==
    EmitOpsFrom(bge3_paragraphs, bge3_paragraph_refs, 0)

\* int(bge3_paragraphs[-1]["id"].split("_")[-1])
MaxParInd(bge3_paragraphs) ==
    LET parts == Split(bge3_paragraphs[Len(bge3_paragraphs)].id, "_")
    IN  ParseInt(parts[Len(parts)])

(***************************************************************************)
(* The inputs of the model: record trees of a dump and records of the       *)
(* external paragraph stream                                                *)
(***************************************************************************)

\* 'Ant'
T_Ant ==
    <<"A", "n", "t">>

\* 'Bat'
T_Bat ==
    <<"B", "a", "t">>

\* 'Bee'
T_Bee ==
    <<"B", "e", "e">>

\* 'Bug'
T_Bug ==
    <<"B", "u", "g">>

\* 'Cat'
T_Cat ==
    <<"C", "a", "t">>

\* 'Dog'
T_Dog ==
    <<"D", "o", "g">>

\* 'ant eats leaf bits\nant [[Bee|bees]] near hive'
TXT_Ant ==
    <<"a", "n", "t", " ", "e", "a", "t", "s", " ", "l", "e", "a", "f", " ", "b", "i",
          "t", "s", "\n", "a", "n", "t", " ", "[", "[", "B", "e", "e", "|", "b", "e",
          "e", "s", "]", "]", " ", "n", "e", "a", "r", " ", "h", "i", "v", "e">>

\* 'See <ref>[[Ignored]]</ref> and [[Real Target|shown text]] and [[Real#Section]]'
TXT_Bee ==
    <<"S", "e", "e", " ", "<", "r", "e", "f", ">", "[", "[", "I", "g", "n", "o", "r",
          "e", "d", "]", "]", "<", "/", "r", "e", "f", ">", " ", "a", "n", "d", " ",
          "[", "[", "R", "e", "a", "l", " ", "T", "a", "r", "g", "e", "t", "|", "s",
          "h", "o", "w", "n", " ", "t", "e", "x", "t", "]", "]", " ", "a", "n", "d",
          " ", "[", "[", "R", "e", "a", "l", "#", "S", "e", "c", "t", "i", "o", "n",
          "]", "]">>

\* 'cat naps'
TXT_Cat ==
    <<"c", "a", "t", " ", "n", "a", "p", "s">>

\* 'ant eats leaf bits'
TXT_Ant0 ==
    <<"a", "n", "t", " ", "e", "a", "t", "s", " ", "l", "e", "a", "f", " ", "b", "i",
          "t", "s">>

\* 'ant bees near hive'
TXT_Ant1 ==
    <<"a", "n", "t", " ", "b", "e", "e", "s", " ", "n", "e", "a", "r", " ", "h", "i",
          "v", "e">>

\* 'See and shown text and Real'
TXT_Bee0 ==
    <<"S", "e", "e", " ", "a", "n", "d", " ", "s", "h", "o", "w", "n", " ", "t", "e",
          "x", "t", " ", "a", "n", "d", " ", "R", "e", "a", "l">>

\* 'cat naps'
TXT_Cat0 ==
    <<"c", "a", "t", " ", "n", "a", "p", "s">>

\* 'cat purrs'
TXT_Cat1 ==
    <<"c", "a", "t", " ", "p", "u", "r", "r", "s">>

\* 'bat hangs'
TXT_Bat0 ==
    <<"b", "a", "t", " ", "h", "a", "n", "g", "s">>

\* 'dog barks'
TXT_Dog0 ==
    <<"d", "o", "g", " ", "b", "a", "r", "k", "s">>

\* '2024-06-01T12:30:00Z'
TS_Ok ==
    <<"2", "0", "2", "4", "-", "0", "6", "-", "0", "1", "T", "1", "2", ":", "3", "0",
          ":", "0", "0", "Z">>

\* 'June 2024Z'
TS_Bad ==
    <<"J", "u", "n", "e", " ", "2", "0", "2", "4", "Z">>

\* '1'
ID_1 ==
    <<"1">>

\* '1x'
ID_Bad ==
    <<"1", "x">>

\* 'Talk'
NS_Talk ==
    <<"T", "a", "l", "k">>

\* 'User'
NS_User ==
    <<"U", "s", "e", "r">>

\* ''
NS_Main ==
    <<>>

\* '0'
KEY_0 ==
    <<"0">>

\* '1'
KEY_1 ==
    <<"1">>

\* '2'
KEY_2 ==
    <<"2">>

\* 'Ant_0'
RID_Ant0 ==
    <<"A", "n", "t", "_", "0">>

\* 'Ant_1'
RID_Ant1 ==
    <<"A", "n", "t", "_", "1">>

\* 'Bat_0'
RID_Bat0 ==
    <<"B", "a", "t", "_", "0">>

\* 'Bee_0'
RID_Bee0 ==
    <<"B", "e", "e", "_", "0">>

\* 'Cat_0'
RID_Cat0 ==
    <<"C", "a", "t", "_", "0">>

\* 'Cat_1'
RID_Cat1 ==
    <<"C", "a", "t", "_", "1">>

\* 'Dog_0'
RID_Dog0 ==
    <<"D", "o", "g", "_", "0">>

SiteInfo ==
    Dto("siteinfo", None, None, None, None, None,
        <<[key |-> KEY_0, content |-> NS_Main], [key |-> KEY_1, content |-> NS_Talk],
          [key |-> KEY_2, content |-> NS_User]>>)

PageDto(title, id, redirect, timestamp, text) ==
    Dto("page", title, id, redirect, timestamp, text, <<>>)

\* the page records a dump is made of, in title order
AllPages ==
    <<PageDto(T_Ant, ID_1, None, TS_Ok, TXT_Ant),
      PageDto(T_Bee, ID_1, None, TS_Ok, TXT_Bee),
      PageDto(T_Bug, ID_Bad, None, TS_Ok, TXT_Cat),
      PageDto(T_Bug, ID_1, None, TS_Bad, TXT_Cat),
      PageDto(T_Cat, ID_1, None, TS_Ok, TXT_Cat),
      PageDto(T_Dog, ID_1, T_Cat, TS_Ok, None)>>

Paragraph(id, title, text, embedding) ==
    [id |-> id, title |-> title, text |-> text, embedding |-> embedding]

\* the records the external stream is made of, in title order; the title Bat
\* has no page in any dump
AllRecords ==
    <<Paragraph(RID_Ant0, T_Ant, TXT_Ant0, 1),
      Paragraph(RID_Ant1, T_Ant, TXT_Ant1, 2),
      Paragraph(RID_Bat0, T_Bat, TXT_Bat0, 3),
      Paragraph(RID_Bee0, T_Bee, TXT_Bee0, 4),
      Paragraph(RID_Cat0, T_Cat, TXT_Cat0, 5),
      Paragraph(RID_Cat1, T_Cat, TXT_Cat1, 6),
      Paragraph(RID_Dog0, T_Dog, TXT_Dog0, 7)>>

\* the bounds of the model
MaxPages     == 2
MaxRecords   == 3
MaxBatchSize == 2

\* the subsequences of s of at most n elements, as sets of positions
Picks(s, n) == {I \in SUBSET DOMAIN s : Cardinality(I) <= n}

\* the subsequence of s at the positions I
RECURSIVE SubsequenceAt(_, _)
SubsequenceAt(s, I) ==
    IF I = {} THEN <<>>
    ELSE LET i == MinOf(I) IN <<s[i]>> \o SubsequenceAt(s, I \ {i})

\* a dump: the siteinfo record, then at most MaxPages page records
Dumps == {<<SiteInfo>> \o SubsequenceAt(AllPages, I) : I \in Picks(AllPages, MaxPages)}

\* the keyword arguments of a call: a MongoDB sink with every batch size, with
\* or without the CSV edge writer, and the CSV edge writer alone as app.py
\* passes it (batch_size is read only when a MongoDB sink is given)
Configs ==
    {[mongodb_client |-> TRUE, edge_writer |-> e, batch_size |-> b] :
        e \in BOOLEAN, b \in 1..MaxBatchSize}
    \cup {[mongodb_client |-> FALSE, edge_writer |-> TRUE, batch_size |-> 1]}

\* an external stream: between one and MaxRecords records, sorted on title
Streams == {SubsequenceAt(AllRecords, I) : I \in Picks(AllRecords, MaxRecords) \ {{}}}

\* The inputs of the long groups: one page of n equal lines and an external
\* group of m records of its title, for n, m up to MaxGroup

\* 'Ape'
T_Ape ==
    <<"A", "p", "e">>

\* 'ape eats [[Fig|figs]] all day'
LINE_Ape ==
    <<"a", "p", "e", " ", "e", "a", "t", "s", " ", "[", "[", "F", "i", "g",
          "|", "f", "i", "g", "s", "]", "]", " ", "a", "l", "l", " ", "d",
          "a", "y">>

\* 'ape eats figs all day'
TXT_Ape0 ==
    <<"a", "p", "e", " ", "e", "a", "t", "s", " ", "f", "i", "g", "s", " ",
          "a", "l", "l", " ", "d", "a", "y">>

MaxGroup == 3

\* the page of n lines
ApePage(n) == PageDto(T_Ape, ID_1, None, TS_Ok, Join([k \in 1..n |-> LINE_Ape], <<NL>>))

\* the external group of m records Ape_0 .. Ape_(m-1)
ApeGroup(m) == [k \in 1..m |-> Paragraph(ParagraphId(T_Ape, k - 1), T_Ape, TXT_Ape0, k)]

\* the page Cat as a redirect to Dog
RedirectCat == PageDto(T_Cat, ID_1, T_Dog, TS_Ok, None)

\* a dump: the siteinfo record, the page, and at most one more record (a page
\* with a malformed id, the page Cat, or the redirect Cat)
GroupDumps ==
    {<<SiteInfo, ApePage(n)>> \o rest :
        n \in 1..MaxGroup,
        rest \in {<<>>, <<AllPages[3]>>, <<AllPages[5]>>, <<RedirectCat>>}}

\* an external stream: the group, alone or followed by the record Dog_0 or by
\* the records Cat_0 and Dog_0
GroupStreams ==
    {ApeGroup(m) \o rest :
        m \in 1..MaxGroup,
        rest \in {<<>>, <<AllRecords[7]>>, <<AllRecords[5], AllRecords[7]>>}}

(***************************************************************************)
(* The state of a run of iterate_pages_from_export_file                     *)
(***************************************************************************)

VARIABLES
    dump,                    \* the top-level records load_xml delivers, in order
    next_record,             \* the position in dump of the next record
    bge3_dataset,            \* the records the external iterator still holds
    last_loaded_paragraph,   \* the external cursor
    parse_page_location_fn,  \* the namespace set the resolver is bound to
    batch_size,              \* kwargs["batch_size"]
    mongodb_client,          \* TRUE when a MongoDB sink is given
    edge_writer,             \* TRUE when a CSV edge writer is given
    batch_update,            \* the batch buffer
    pending,                 \* the appends of the page in hand still to run
    pages,                   \* the batches bulk_write wrote to collection "pages"
    edge_rows,               \* the rows written through edge_writer
    page_count,              \* ProgressIndicator.page_count
    last_page_count,         \* ProgressIndicator.last_page_count
    bulk_writes,             \* every call of collection.bulk_write and its result
    pc,                      \* "run", "emit", "done" or "raised"
    error,                   \* the exception that left the run, "" if none
    history                  \* what became of each record handled so far

\* the state of load_xml: the parser and its LazyObjectHandler
VARIABLES
    events,                  \* the number of start and character events delivered
    open_elements,           \* the names of the elements the parser has open
    breadcrumb,              \* LazyObjectHandler.breadcrumb, as places in heap
    heap,                    \* the dicts the handler created, in creation order
    skipped_first_node,      \* LazyObjectHandler.skipped_first_node
    content,                 \* LazyObjectHandler.content
    callbacks,               \* the arguments of the calls of callback, in order
    children,                \* the nodes created for the children of the root
    attached,                \* every node created, with the dict it was put in
    own_text,                \* for each open element, the character data received directly inside it
    closed,                  \* how many end tags of children of the root were seen
    parse,                   \* "parsing", "done" or "raised"
    parse_error              \* the exception that left parser.parse, "" if none

pipeline == <<dump, next_record, bge3_dataset, last_loaded_paragraph,
              parse_page_location_fn, batch_size, mongodb_client, edge_writer,
              batch_update, pending, pages, edge_rows, page_count, last_page_count,
              bulk_writes, pc, error, history>>

builder == <<events, open_elements, breadcrumb, heap, skipped_first_node, content,
             callbacks, children, attached, own_text, closed, parse, parse_error>>

\* the state of a caller of _get_page_location
VARIABLES
    raw_title,               \* the raw title given to the resolver
    declared_namespaces,     \* the namespace set given to the resolver
    resolved                 \* the calls made so far, with what they returned

resolver == <<raw_title, declared_namespaces, resolved>>

\* the state of an alignment loop looking for one external paragraph
VARIABLES
    lines_of_page,           \* page_paragraphs
    line_breaks,             \* bge3_newline_count
    compared                 \* the candidates compared so far, position by position

aligner == <<lines_of_page, line_breaks, compared>>

vars == <<pipeline, builder, resolver, aligner>>

\* no page was given to an alignment loop of its own
AlignerIdle ==
    /\ lines_of_page = <<>>
    /\ line_breaks = 0
    /\ compared = <<>>

\* no title was given to a resolver of its own
ResolverIdle ==
    /\ raw_title = <<>>
    /\ declared_namespaces = {}
    /\ resolved = <<>>

inputs == <<dump, batch_size, mongodb_client, edge_writer>>

\* self.content = None, and the list self.content is after a startElement
ContentNone == [list |-> FALSE, items |-> <<>>]
ContentList(items) == [list |-> TRUE, items |-> items]

\* {}
EmptyDict == <<>>

\* load_xml up to parser.parse: LazyObjectHandler.__init__
LazyObjectHandlerInit ==
    /\ events = 0
    /\ open_elements = <<>>
    /\ heap = <<EmptyDict>>
    /\ breadcrumb = <<1>>
    /\ skipped_first_node = FALSE
    /\ content = ContentNone
    /\ callbacks = <<>>
    /\ children = <<>>
    /\ attached = <<>>
    /\ own_text = <<>>
    /\ closed = 0
    /\ parse = "parsing"
    /\ parse_error = ""

\* iterate_pages_from_export_file up to the call of load_xml
Init ==
    /\ dump \in Dumps
    /\ \E stream \in Streams :
          /\ last_loaded_paragraph = Head(stream)
          /\ bge3_dataset = Tail(stream)
    /\ \E config \in Configs :
          /\ batch_size = config.batch_size
          /\ mongodb_client = config.mongodb_client
          /\ edge_writer = config.edge_writer
    /\ next_record = 1
    /\ parse_page_location_fn = NoNamespaces
    /\ batch_update = <<>>
    /\ pending = <<>>
    /\ pages = <<>>
    /\ bulk_writes = <<>>
    /\ edge_rows = <<>>
    /\ page_count = 0
    /\ last_page_count = 0
    /\ pc = "run"
    /\ error = ""
    /\ history = <<>>
    /\ LazyObjectHandlerInit
    /\ ResolverIdle
    /\ AlignerIdle

\* the records from the cursor on: the cursor, then what the iterator holds
Ahead == <<last_loaded_paragraph>> \o bge3_dataset

\* the length of the run of records at the head of s that carry title
RECURSIVE RunLength(_, _)
RunLength(s, title) ==
    IF s = <<>> \/ s[1].title # title THEN 0 ELSE 1 + RunLength(Tail(s), title)

\* What on_element does with a page after the page handlers ran (lines
\* 278-340): its outcome, the exception it raises ("" if none), the cursor and
\* the iterator it leaves, the group collected, the page positions matched and
\* the appends that follow.
\*   "mismatch"  the title test of line 280 returned
\*   "raise"     an exception left on_element
\*   "aligned"   the alignment loop ended
Outcome(outcome, err, cursor, iterator, bge3_paragraphs, matched, ops) ==
    [outcome |-> outcome, error |-> err, cursor |-> cursor, iterator |-> iterator,
     bge3_paragraphs |-> bge3_paragraphs, matched |-> matched, ops |-> ops]

\* lines 339-340: the facts are built only when a MongoDB sink is given, after
\* the index suffix of the last record's id was parsed
HandleAligned(bge3_paragraphs, a, cursor, iterator) ==
    IF ~mongodb_client
    THEN Outcome("aligned", "", cursor, iterator, bge3_paragraphs, a.matched, <<>>)
    ELSE IF ~MaxParInd(bge3_paragraphs).ok
    THEN Outcome("raise", "ValueError", cursor, iterator, bge3_paragraphs, a.matched, <<>>)
    ELSE Outcome("aligned", "", cursor, iterator, bge3_paragraphs, a.matched,
                 EmitOps(bge3_paragraphs, a.refs))

\* a handler that gives a page with too few paragraphs up without raising
HandleParagraphsSkipsSkew(page_paragraphs, bge3_paragraphs, cursor, iterator) ==
    IF Len(page_paragraphs) < Len(bge3_paragraphs)
    THEN Outcome("aligned", "", cursor, iterator, bge3_paragraphs, <<>>, <<>>)
    ELSE HandleAligned(bge3_paragraphs, Align(page_paragraphs, bge3_paragraphs),
                       cursor, iterator)

\* lines 291-327: the size test, then the alignment loop
HandleParagraphs(page_paragraphs, bge3_paragraphs, cursor, iterator) ==
    IF Len(page_paragraphs) < Len(bge3_paragraphs)
    THEN Outcome("raise", "Exception", cursor, iterator, bge3_paragraphs, <<>>, <<>>)
    ELSE HandleAligned(bge3_paragraphs, Align(page_paragraphs, bge3_paragraphs),
                       cursor, iterator)

\* lines 288-290 for a page model whose content is "" when it is a redirect,
\* and line 339 without the isinstance test
HandleGroupAnyPage(page, bge3_paragraphs, cursor, iterator) ==
    HandleParagraphs(PageParagraphs(IF page.kind = "ContentPage" THEN page.content ELSE <<>>),
                     bge3_paragraphs, cursor, iterator)

\* lines 288-290: page.content, which a RedirectPage does not have
HandleGroup(page, bge3_paragraphs, cursor, iterator) ==
    IF page.kind # "ContentPage"
    THEN Outcome("raise", "AttributeError", cursor, iterator, bge3_paragraphs, <<>>, <<>>)
    ELSE HandleParagraphs(PageParagraphs(page.content), bge3_paragraphs, cursor, iterator)

\* lines 283-286 for the n records at the head of ahead that carry the title:
\* when they are all that is left, next() raises StopIteration and the cursor
\* keeps the last record
CollectGroup(page, ahead, n) ==
    IF n = Len(ahead)
    THEN Outcome("raise", "StopIteration", ahead[n], <<>>, <<>>, <<>>, <<>>)
    ELSE HandleGroup(page, SubSeq(ahead, 1, n), ahead[n + 1], Suffix(ahead, n + 2))

\* a handler that aligns every content page with the group at the cursor,
\* whatever the title of that group
HandlePageIgnoresTitle(page, cursor, iterator) ==
    IF page.kind # "ContentPage"
    THEN Outcome("mismatch", "", cursor, iterator, <<>>, <<>>, <<>>)
    ELSE CollectGroup(page, <<cursor>> \o iterator,
                      RunLength(<<cursor>> \o iterator, cursor.title))

HandlePage(page, cursor, iterator) ==
    IF page.title # cursor.title
    THEN Outcome("mismatch", "", cursor, iterator, <<>>, <<>>, <<>>)
    ELSE CollectGroup(page, <<cursor>> \o iterator,
                      RunLength(<<cursor>> \o iterator, cursor.title))

\* the entry history keeps for a handled record
Handled(record, kind, title, outcome, err, group, matched) ==
    [record |-> record, kind |-> kind, title |-> title, outcome |-> outcome,
     error |-> err, group |-> group, matched |-> matched]

\* a ProgressIndicator.on_element that counts a page only when it refreshes
\* the display
ProgressOnElementOnRefresh ==
    \/ /\ page_count' = page_count + 1
       /\ last_page_count' = page_count + 1
    \/ UNCHANGED <<page_count, last_page_count>>

\* ProgressIndicator.on_element: the count goes up by one, and when the time
\* since the last update exceeds seconds_between_updates the display is
\* refreshed and last_page_count catches up
ProgressOnElement ==
    /\ page_count' = page_count + 1
    /\ last_page_count' \in {last_page_count, page_count + 1}

Running == pc = "run" /\ next_record <= Len(dump)

\* on_element for a record tree the mapper returns None for (line 273)
OnElementNoPage ==
    /\ Running
    /\ \E m \in {ElementMapper(dump[next_record], parse_page_location_fn)} :
           /\ m.status = "none"
           /\ parse_page_location_fn' = m.fn
           /\ history' = Append(history,
                  Handled(next_record, "None", None, "none", "", <<>>, <<>>))
    /\ next_record' = next_record + 1
    /\ UNCHANGED <<resolver, aligner, builder, inputs, bge3_dataset, last_loaded_paragraph, batch_update,
                   pending, pages, bulk_writes, edge_rows, page_count, last_page_count,
                   pc, error>>

\* on_element for a record tree the mapper raises on: the exception leaves
\* on_element, the parser and load_xml
OnElementMapperRaises ==
    /\ Running
    /\ \E m \in {ElementMapper(dump[next_record], parse_page_location_fn)} :
           /\ m.status = "raise"
           /\ error' = m.error
           /\ history' = Append(history,
                  Handled(next_record, "None", None, "raise", m.error, <<>>, <<>>))
    /\ pc' = "raised"
    /\ UNCHANGED <<resolver, aligner, builder, inputs, next_record, bge3_dataset, last_loaded_paragraph,
                   parse_page_location_fn, batch_update, pending, pages, bulk_writes,
                   edge_rows, page_count, last_page_count>>

\* on_element for a page whose title is not the cursor's (line 281)
OnElementTitleMismatch ==
    /\ Running
    /\ \E m \in {ElementMapper(dump[next_record], parse_page_location_fn)} :
           /\ m.status = "page"
           /\ HandlePage(m.page, last_loaded_paragraph, bge3_dataset).outcome = "mismatch"
           /\ history' = Append(history,
                  Handled(next_record, m.page.kind, m.page.title, "mismatch", "", <<>>, <<>>))
    /\ ProgressOnElement
    /\ next_record' = next_record + 1
    /\ UNCHANGED <<resolver, aligner, builder, inputs, bge3_dataset, last_loaded_paragraph, parse_page_location_fn,
                   batch_update, pending, pages, bulk_writes, edge_rows, pc, error>>

\* on_element for a page whose title is the cursor's, when an exception leaves
\* it: StopIteration from next(), AttributeError for a RedirectPage, the
\* Exception of line 292 or ValueError from line 340
OnElementRaises ==
    /\ Running
    /\ \E m \in {ElementMapper(dump[next_record], parse_page_location_fn)} :
           /\ m.status = "page"
           /\ \E h \in {HandlePage(m.page, last_loaded_paragraph, bge3_dataset)} :
                  /\ h.outcome = "raise"
                  /\ last_loaded_paragraph' = h.cursor
                  /\ bge3_dataset' = h.iterator
                  /\ error' = h.error
                  /\ history' = Append(history,
                         Handled(next_record, m.page.kind, m.page.title, "raise",
                                 h.error, h.bge3_paragraphs, h.matched))
    /\ ProgressOnElement
    /\ pc' = "raised"
    /\ UNCHANGED <<resolver, aligner, builder, inputs, next_record, parse_page_location_fn, batch_update,
                   pending, pages, bulk_writes, edge_rows>>

\* on_element for a page whose title is the cursor's, up to the first append:
\* the group is collected and aligned; the appends of lines 341-364 follow,
\* one EmitFact step each, when a MongoDB sink is given
OnElementAligned ==
    /\ Running
    /\ \E m \in {ElementMapper(dump[next_record], parse_page_location_fn)} :
           /\ m.status = "page"
           /\ \E h \in {HandlePage(m.page, last_loaded_paragraph, bge3_dataset)} :
                  /\ h.outcome = "aligned"
                  /\ last_loaded_paragraph' = h.cursor
                  /\ bge3_dataset' = h.iterator
                  /\ pending' = h.ops
                  /\ pc' = IF h.ops = <<>> THEN "run" ELSE "emit"
                  /\ next_record' = IF h.ops = <<>> THEN next_record + 1 ELSE next_record
                  /\ history' = Append(history,
                         Handled(next_record, m.page.kind, m.page.title, "aligned",
                                 "", h.bge3_paragraphs, h.matched))
    /\ ProgressOnElement
    /\ UNCHANGED <<resolver, aligner, builder, inputs, parse_page_location_fn, batch_update, pages, bulk_writes,
                   edge_rows, error>>

\* MongoDBJobDB.bulk_write("pages", batch) when it returns: nothing for an
\* empty batch, otherwise one bulk write of the whole batch
bulk_write(collection, batch) ==
    IF Len(batch) = 0 THEN collection ELSE Append(collection, batch)

\* the exceptions collection.bulk_write raises: a write conflict that a retry
\* could get past, and a failure that no retry gets past
SinkErrors == {"SinkTransientError", "SinkFatalError"}

\* the entry bulk_writes keeps for a call
WriteCall(batch, result) == [batch |-> batch, result |-> result]

\* the state after the append in hand, when on_element goes on
AfterAppend ==
    /\ pending' = Tail(pending)
    /\ pc' = IF Tail(pending) = <<>> THEN "run" ELSE "emit"
    /\ next_record' = IF Tail(pending) = <<>> THEN next_record + 1 ELSE next_record
    /\ error' = error

\* the test of line 362 after fact was appended, buf being the buffer then
FlushTest(flush_test, buf) == flush_test /\ Len(buf) >= batch_size

\* lines 363-364 when bulk_write returns: the batch is written, then cleared
BulkWriteReturns(buf) ==
    /\ pages' = bulk_write(pages, buf)
    /\ bulk_writes' = Append(bulk_writes, WriteCall(buf, "ok"))
    /\ batch_update' = <<>>
    /\ AfterAppend

\* a coordinator that writes the batch again after a failure
BulkWriteRetried(buf, e) ==
    /\ pages' = bulk_write(pages, buf)
    /\ bulk_writes' = Append(Append(bulk_writes, WriteCall(buf, e)), WriteCall(buf, "ok"))
    /\ batch_update' = <<>>
    /\ AfterAppend

\* a coordinator that clears the buffer before the write is known to be done
BulkWriteRaisesAfterClear(buf, e) ==
    /\ pages' = pages
    /\ bulk_writes' = Append(bulk_writes, WriteCall(buf, e))
    /\ batch_update' = <<>>
    /\ error' = e
    /\ pc' = "raised"
    /\ UNCHANGED <<pending, next_record>>

\* lines 363-364 when bulk_write raises e: nothing catches it, clear() is not
\* reached and the exception leaves on_element, the parser and load_xml
BulkWriteRaises(buf, e) ==
    /\ pages' = pages
    /\ bulk_writes' = Append(bulk_writes, WriteCall(buf, e))
    /\ batch_update' = buf
    /\ error' = e
    /\ pc' = "raised"
    /\ UNCHANGED <<pending, next_record>>

\* one  batch_update.append(...)  and, after an append of the  for ref  loop,
\* the test of line 362 with the bulk write it guards
EmitFact ==
    /\ pc = "emit"
    /\ \E op \in {Head(pending)}, buf \in {Append(batch_update, Head(pending).fact)} :
           \/ /\ ~FlushTest(op.flush_test, buf)
              /\ batch_update' = buf
              /\ UNCHANGED <<pages, bulk_writes>>
              /\ AfterAppend
           \/ /\ FlushTest(op.flush_test, buf)
              /\ BulkWriteReturns(buf)
           \/ /\ FlushTest(op.flush_test, buf)
              /\ \E e \in SinkErrors : BulkWriteRaises(buf, e)
    /\ UNCHANGED <<resolver, aligner, builder, inputs, bge3_dataset, last_loaded_paragraph, parse_page_location_fn,
                   edge_rows, page_count, last_page_count, history>>

\* the parser reaches the end of the input: load_xml and
\* iterate_pages_from_export_file return
EndOfDocument ==
    /\ pc = "run"
    /\ next_record > Len(dump)
    /\ pc' = "done"
    /\ UNCHANGED <<resolver, aligner, builder, inputs, next_record, bge3_dataset, last_loaded_paragraph,
                   parse_page_location_fn, batch_update, pending, pages, bulk_writes,
                   edge_rows, page_count, last_page_count, error, history>>

Next ==
    \/ OnElementNoPage
    \/ OnElementMapperRaises
    \/ OnElementTitleMismatch
    \/ OnElementRaises
    \/ OnElementAligned
    \/ EmitFact
    \/ EndOfDocument

Spec == Init /\ [][Next]_vars

\* iterate_pages_from_export_file up to the call of load_xml, for the inputs
\* of the long groups
InitGroups ==
    /\ dump \in GroupDumps
    /\ \E stream \in GroupStreams :
          /\ last_loaded_paragraph = Head(stream)
          /\ bge3_dataset = Tail(stream)
    /\ \E config \in Configs :
          /\ batch_size = config.batch_size
          /\ mongodb_client = config.mongodb_client
          /\ edge_writer = config.edge_writer
    /\ next_record = 1
    /\ parse_page_location_fn = NoNamespaces
    /\ batch_update = <<>>
    /\ pending = <<>>
    /\ pages = <<>>
    /\ bulk_writes = <<>>
    /\ edge_rows = <<>>
    /\ page_count = 0
    /\ last_page_count = 0
    /\ pc = "run"
    /\ error = ""
    /\ history = <<>>
    /\ LazyObjectHandlerInit
    /\ ResolverIdle
    /\ AlignerIdle

SpecGroups == InitGroups /\ [][Next]_vars

(***************************************************************************)
(* xml_loader.py: load_xml and LazyObjectHandler.  Spec takes the records   *)
(* as load_xml delivers them; SpecXml takes the builder on its own, event   *)
(* by event, for the well-formed documents of at most MaxEvents start and   *)
(* character events and MaxDepth open elements.                             *)
(***************************************************************************)

MaxEvents == 6
MaxDepth == 3

\* element names; "content" is also a key of every node
ElementNames == {"page", "content"}

\* the character data of one characters event (the parser delivers no empty one)
Chunks == {"a", "b"}

\* the values a dict holds: a string, the attributes, a dict or a list
StrValue(s) == [str |-> s]
AttrsValue == [attrs |-> <<>>]
DictRef(id) == [ref |-> id]
ListValue(items) == [list |-> items]
IsList(v) == "list" \in DOMAIN v

\* d[k] = v
DictSet(d, k, v) == (k :> v) @@ d

\* tag = {"name": name, "attrs": attrs, "content": ""}
Tag(name) == [name |-> StrValue(name), attrs |-> AttrsValue, content |-> StrValue("")]

\* "".join(chunks)
RECURSIVE JoinChunks(_)
JoinChunks(chunks) ==
    IF chunks = <<>> THEN "" ELSE Head(chunks) \o JoinChunks(Tail(chunks))

\* lines 18-23: head[name] becomes the tag, or the list of what it was and the tag
AddChild(head, name, tag) ==
    IF name \in DOMAIN head
    THEN DictSet(head, name,
                 ListValue(Append(IF IsList(head[name]) THEN head[name].list
                                  ELSE <<head[name]>>, tag)))
    ELSE DictSet(head, name, tag)

\* an exception leaves the handler and parser.parse
ParseRaises(e) ==
    /\ parse' = "raised"
    /\ parse_error' = e

\* len(self.breadcrumb) == 1, every close counting as the close of a record
AnyClosed(popped) == Len(popped) >= 1

\* line 34: len(self.breadcrumb) == 1 after the pop
TopLevelClosed(popped) == Len(popped) = 1

\* lines 14-27 for a tag created at place tag of the heap
StartTag(name, tag, head) ==
    /\ heap' = Append([heap EXCEPT ![head] = AddChild(@, name, DictRef(tag))], Tag(name))
    /\ breadcrumb' = Append(breadcrumb, tag)
    /\ content' = ContentList(<<>>)
    /\ children' = IF Len(open_elements) = 1 THEN Append(children, tag) ELSE children
    /\ attached' = Append(attached, [node |-> tag, parent |-> head, name |-> name])

\* LazyObjectHandler.startElement(name, attrs)
StartElement ==
    /\ parse = "parsing"
    /\ events < MaxEvents
    /\ Len(open_elements) < MaxDepth
    /\ open_elements # <<>> \/ events = 0
    /\ events' = events + 1
    /\ \E name \in ElementNames :
           /\ open_elements' = Append(open_elements, name)
           /\ own_text' = Append(own_text, "")
           /\ IF ~skipped_first_node
              THEN /\ skipped_first_node' = TRUE
                   /\ UNCHANGED <<breadcrumb, heap, content, children, attached, parse, parse_error>>
              ELSE IF breadcrumb = <<>>
              THEN /\ ParseRaises("IndexError")
                   /\ UNCHANGED <<breadcrumb, heap, content, children, attached, skipped_first_node>>
              ELSE /\ StartTag(name, Len(heap) + 1, breadcrumb[Len(breadcrumb)])
                   /\ UNCHANGED <<skipped_first_node, parse, parse_error>>
    /\ UNCHANGED <<callbacks, closed, pipeline, resolver, aligner>>

\* lines 34-36 without line 36: the callback is made and the stack is kept
AfterPopKeepsRecord(name, popped, tree) ==
    IF ~TopLevelClosed(popped)
    THEN /\ breadcrumb' = popped
         /\ heap' = tree
         /\ UNCHANGED <<callbacks, parse, parse_error>>
    ELSE IF name \notin DOMAIN tree[popped[Len(popped)]]
    THEN /\ breadcrumb' = popped
         /\ heap' = tree
         /\ ParseRaises("KeyError")
         /\ UNCHANGED callbacks
    ELSE /\ callbacks' = Append(callbacks, tree[popped[Len(popped)]][name])
         /\ heap' = tree
         /\ breadcrumb' = popped
         /\ UNCHANGED <<parse, parse_error>>

\* lines 34-36 after the pop left popped, tree being the heap then
AfterPop(name, popped, tree) ==
    IF ~TopLevelClosed(popped)
    THEN /\ breadcrumb' = popped
         /\ heap' = tree
         /\ UNCHANGED <<callbacks, parse, parse_error>>
    ELSE IF name \notin DOMAIN tree[popped[Len(popped)]]
    THEN /\ breadcrumb' = popped
         /\ heap' = tree
         /\ ParseRaises("KeyError")
         /\ UNCHANGED callbacks
    ELSE /\ callbacks' = Append(callbacks, tree[popped[Len(popped)]][name])
         /\ heap' = Append(tree, EmptyDict)
         /\ breadcrumb' = <<Len(tree) + 1>>
         /\ UNCHANGED <<parse, parse_error>>

\* LazyObjectHandler.endElement(name): "".join(None) raises TypeError, and so
\* does the close of a root that has no child element
EndElement ==
    /\ parse = "parsing"
    /\ open_elements # <<>>
    /\ open_elements' = SubSeq(open_elements, 1, Len(open_elements) - 1)
    /\ own_text' = SubSeq(own_text, 1, Len(own_text) - 1)
    /\ closed' = IF Len(open_elements) = 2 THEN closed + 1 ELSE closed
    /\ IF breadcrumb = <<>>
       THEN /\ ParseRaises("IndexError")
            /\ UNCHANGED <<breadcrumb, heap, callbacks>>
       ELSE IF ~content.list
       THEN /\ ParseRaises("TypeError")
            /\ UNCHANGED <<breadcrumb, heap, callbacks>>
       ELSE AfterPop(open_elements[Len(open_elements)],
                     SubSeq(breadcrumb, 1, Len(breadcrumb) - 1),
                     [heap EXCEPT ![breadcrumb[Len(breadcrumb)]] =
                          DictSet(@, "content", StrValue(JoinChunks(content.items)))])
    /\ UNCHANGED <<events, skipped_first_node, content, children, attached, pipeline,
                   resolver, aligner>>

\* LazyObjectHandler.characters(content)
Characters ==
    /\ parse = "parsing"
    /\ events < MaxEvents
    /\ open_elements # <<>>
    /\ events' = events + 1
    /\ \E chunk \in Chunks :
           /\ content' = IF chunk = "" \/ ~content.list
                         THEN content
                         ELSE ContentList(Append(content.items, chunk))
           /\ own_text' = [own_text EXCEPT ![Len(own_text)] = @ \o chunk]
    /\ UNCHANGED <<open_elements, breadcrumb, heap, skipped_first_node, callbacks,
                   children, attached, closed, parse, parse_error, pipeline, resolver, aligner>>

\* the root was closed: parser.parse and load_xml return
EndDocument ==
    /\ parse = "parsing"
    /\ events > 0
    /\ open_elements = <<>>
    /\ parse' = "done"
    /\ UNCHANGED <<events, open_elements, breadcrumb, heap, skipped_first_node,
                   content, callbacks, children, attached, own_text, closed, parse_error,
                   pipeline, resolver, aligner>>

\* the pipeline before it is given anything
PipelineIdle ==
    /\ dump = <<>>
    /\ last_loaded_paragraph = AllRecords[1]
    /\ bge3_dataset = <<>>
    /\ batch_size = 1
    /\ mongodb_client = FALSE
    /\ edge_writer = FALSE
    /\ next_record = 1
    /\ parse_page_location_fn = NoNamespaces
    /\ batch_update = <<>>
    /\ pending = <<>>
    /\ pages = <<>>
    /\ bulk_writes = <<>>
    /\ edge_rows = <<>>
    /\ page_count = 0
    /\ last_page_count = 0
    /\ pc = "run"
    /\ error = ""
    /\ history = <<>>

InitXml == PipelineIdle /\ LazyObjectHandlerInit /\ ResolverIdle /\ AlignerIdle

NextXml ==
    \/ StartElement
    \/ EndElement
    \/ Characters
    \/ EndDocument

SpecXml == InitXml /\ [][NextXml]_vars

(***************************************************************************)
(* _get_page_location on its own: SpecResolve gives it every raw title made *)
(* of at most MaxTokens tokens, under each namespace set, then resolves the *)
(* title it returned, or the raw title in another separator style.          *)
(***************************************************************************)

MaxTokens == 4

\* 'User talk'
NS_UserTalk ==
    <<"U", "s", "e", "r", " ", "t", "a", "l", "k">>

\* 'talk'
TOKEN_talk ==
    <<"t", "a", "l", "k">>

\* what raw titles are made of: words, namespace names and punctuation
Tokens ==
    {TALK, TOKEN_talk, NS_UserTalk, <<"W">>, <<"w">>, <<"a">>,
     <<":">>, <<"_">>, <<" ">>, <<"/">>}

RawTitles ==
    {Join(tokens, <<>>) : tokens \in UNION {[1..k -> Tokens] : k \in 0..MaxTokens}}

\* the namespace sets of a siteinfo record: with and without the namespace Talk
NamespaceSets == {{NS_Main, NS_Talk, NS_UserTalk}, {NS_Main, NS_UserTalk}}

\* the title with every separator (space or underscore) written as sep
WithSeparator(s, sep) ==
    Join([i \in 1..Len(s) |-> IF s[i] \in {" ", "_"} THEN sep ELSE <<s[i]>>], <<>>)

\* the title in the other separator styles: spaces, underscores, doubled
Restyled(s) ==
    {WithSeparator(s, <<" ">>), WithSeparator(s, <<"_">>), WithSeparator(s, <<"_", " ">>)} \ {s}

\* a call of parse_page_location_fn and what it returned
Call(kind, t) ==
    [kind |-> kind, title |-> t, location |-> GetPageLocation(declared_namespaces, t)]

InitResolve ==
    /\ PipelineIdle
    /\ LazyObjectHandlerInit
    /\ raw_title \in RawTitles
    /\ declared_namespaces \in NamespaceSets
    /\ resolved = <<>>
    /\ AlignerIdle

\* parse_page_location_fn(title) for the raw title
Resolve ==
    /\ resolved = <<>>
    /\ resolved' = <<Call("first", raw_title)>>
    /\ UNCHANGED <<raw_title, declared_namespaces, pipeline, builder, aligner>>

\* parse_page_location_fn(location.title) for the location just returned
ResolveAgain ==
    /\ Len(resolved) = 1
    /\ resolved' = Append(resolved, Call("again", resolved[1].location.title))
    /\ UNCHANGED <<raw_title, declared_namespaces, pipeline, builder, aligner>>

\* parse_page_location_fn(title) for the raw title in another separator style
ResolveRestyled ==
    /\ Len(resolved) = 1
    /\ \E t \in Restyled(raw_title) : resolved' = Append(resolved, Call("restyled", t))
    /\ UNCHANGED <<raw_title, declared_namespaces, pipeline, builder, aligner>>

NextResolve ==
    \/ Resolve
    \/ ResolveAgain
    \/ ResolveRestyled

SpecResolve == InitResolve /\ [][NextResolve]_vars

(***************************************************************************)
(* The candidates of the alignment loop (lines 300-302), for every page of  *)
(* at most MaxLines paragraphs and every external paragraph of at most      *)
(* MaxBreaks line breaks                                                    *)
(***************************************************************************)

MaxLines == 3
MaxBreaks == 2

\* the page paragraphs a page is made of
PageLines == {<<"a">>, <<"b">>, <<"c">>}

\* on_element at line 300: the page paragraphs and the line breaks counted in
\* the text of the external paragraph
InitAlign ==
    /\ PipelineIdle
    /\ LazyObjectHandlerInit
    /\ ResolverIdle
    /\ lines_of_page \in UNION {[1..n -> PageLines] : n \in 1..MaxLines}
    /\ line_breaks \in 0..MaxBreaks
    /\ compared = <<>>

\* one pass of  for par_ind, par in enumerate(page_paragraphs)  up to line 302
CompareNext ==
    /\ Len(compared) < Len(lines_of_page)
    /\ compared' = Append(compared,
                          Candidate(lines_of_page, Len(compared) + 1, line_breaks))
    /\ UNCHANGED <<lines_of_page, line_breaks, pipeline, builder, resolver>>

NextAlign == CompareNext

SpecAlign == InitAlign /\ [][NextAlign]_vars

(***************************************************************************)
(* Properties                                                               *)
(***************************************************************************)

\* all the facts of a sequence of batches, in order
RECURSIVE Flatten(_)
Flatten(batches) ==
    IF batches = <<>> THEN <<>> ELSE Head(batches) \o Flatten(Tail(batches))

\* ceil(n / b)
CeilDiv(n, b) == (n + b - 1) \div b

\* the facts appended to the buffer so far: those written, then those buffered
FactsAppended == Flatten(pages) \o batch_update

\* the record tree of the i-th record handled
DtoOf(i) == dump[history[i].record]

\* the content pages handled so far, as positions in history
ContentPagesHandled == {i \in DOMAIN history : history[i].kind = "ContentPage"}

\* C1: the callback is invoked once for each child element of the root, in
\* document order, at the moment the child's end tag is processed and with the
\* node built for that child, and never for the root or a nested element: at
\* every point of a parse the calls made so far are the nodes of the children
\* of the root closed so far, in order.
C1_CallbackPerTopLevelElement ==
    /\ closed <= Len(children)
    /\ callbacks = [i \in 1..closed |-> DictRef(children[i])]

\* a document of two records, one of them with a nested element, parsed to its end
C1_Witness ==
    /\ parse = "done"
    /\ Len(callbacks) = 2
    /\ Len(heap) = 6

\* C2: on normal termination every fact appended to the buffer has been
\* written to the sink exactly once, none is left in the buffer, and N facts
\* with batch size B took ceil(N / B) writes.
C2_DrainedOnTermination ==
    pc = "done" =>
        /\ batch_update = <<>>
        /\ Len(pages) = CeilDiv(Len(FactsAppended), batch_size)

\* C3: after the handling of every appended fact, whatever its kind, the
\* buffer holds fewer than batch_size facts.
C3_BufferBelowBatchSize == Len(batch_update) < batch_size

\* The references C4 describes for a body: one pair per [[...]] token of the
\* citation-stripped text, in source order, the offset of its "[[" and the
\* token text before the first "|" and before the first "#" (in the order
\* _map_dict_to_page_model unpacks them: position, then target).
ClaimedReferences(text) ==
    LET m == LinkMatches(StripRefs(text), 0)
    IN  [i \in 1..Len(m) |-> <<m[i][1], LinkTarget(m[i][2])>>]

\* C4: for every page body the Reference Extractor returns, in source order,
\* one (target, offset) pair for each link token of the citation-stripped
\* text; for the body of the page Bee these are 'Real Target' and 'Real'.
C4_ExtractsEveryLink ==
    \A i \in ContentPagesHandled :
        ExtractReferences(DtoOf(i).text) = ClaimedReferences(DtoOf(i).text)

\* the edge rows C5 describes for the content pages handled up to history
\* position n: (source title, target title, position) per reference
RECURSIVE ClaimedEdgeRows(_)
ClaimedEdgeRows(n) ==
    IF n = 0 THEN <<>>
    ELSE IF history[n].kind # "ContentPage" THEN ClaimedEdgeRows(n - 1)
    ELSE LET refs == ClaimedReferences(DtoOf(n).text)
         IN  ClaimedEdgeRows(n - 1)
             \o [k \in 1..Len(refs) |->
                    <<history[n].title,
                      GetPageLocation(parse_page_location_fn, refs[k][2]).title,
                      refs[k][1]>>]

\* C5: with an edge writer given, processing a ContentPage emits one LinkEdge
\* row (source title, target title, position) per reference of the page, so a
\* run over content pages that contain links produces at least one row.
C5_EdgeRowPerReference ==
    (edge_writer /\ pc = "done") => edge_rows = ClaimedEdgeRows(Len(history))

\* a page record whose id is no integer or whose timestamp is malformed
BadRecord(dto) ==
    /\ dto.name = "page"
    /\ \/ ~ParseInt(dto.id).ok
       \/ ~FromIsoFormat(SubSeq(dto.timestamp, 1, Len(dto.timestamp) - 1)).ok

SkewAhead ==
    /\ Running
    /\ dump[next_record].name = "page"
    /\ ~BadRecord(dump[next_record])
    /\ dump[next_record].redirect = None
    /\ GetPageLocation(parse_page_location_fn, dump[next_record].title).title
           = last_loaded_paragraph.title
    /\ Len(PageParagraphs(dump[next_record].text))
           < RunLength(Ahead, last_loaded_paragraph.title)

\* the group at the cursor is all that is left of the stream
LastGroupAhead == RunLength(Ahead, last_loaded_paragraph.title) = Len(Ahead)

FailedWrites == {k \in DOMAIN bulk_writes : bulk_writes[k].result \in SinkErrors}

C9_FailedBatchKept ==
    (pc = "raised" /\ error = "SinkFatalError") =>
        /\ bulk_writes # <<>>
        /\ bulk_writes[Len(bulk_writes)].result = "SinkFatalError"
        /\ batch_update = bulk_writes[Len(bulk_writes)].batch
        /\ batch_update # <<>>
        /\ pages = [k \in 1..(Len(bulk_writes) - 1) |-> bulk_writes[k].batch]

C9_Witness ==
    /\ pc = "raised"
    /\ error = "SinkFatalError"
    /\ Len(batch_update) > 1

\* the titles of the external stream: of the groups consumed and of the
\* records from the cursor on
StreamTitles ==
    {Ahead[k].title : k \in DOMAIN Ahead}
    \cup UNION {{history[i].group[k].title : k \in DOMAIN history[i].group} :
                   i \in DOMAIN history}

\* C10: with pages and external records in the same title order, every
\* content page whose title has a group in the external stream is aligned
\* with that group, also when the stream holds titles that have no page.
C10_EveryGroupedPageAligned ==
    pc = "done" =>
        \A i \in ContentPagesHandled :
            history[i].title \in StreamTitles => history[i].outcome = "aligned"

\* the record at next_record maps to a page whose title is not the cursor's
TitleMismatchAhead ==
    /\ Running
    /\ ElementMapper(dump[next_record], parse_page_location_fn).status = "page"
    /\ ElementMapper(dump[next_record], parse_page_location_fn).page.title
           # last_loaded_paragraph.title

\* C11: processing a page whose title differs from the title of the current
\* external record leaves the external cursor, the iterator, the batch buffer
\* and the sink as they were: no external record is consumed, no fact is
\* appended or written, and the run goes on with the next record.
C11_MismatchLeavesCursorAndBuffer ==
    [][TitleMismatchAhead =>
          /\ UNCHANGED <<last_loaded_paragraph, bge3_dataset, batch_update,
                         pending, pages, bulk_writes, edge_rows>>
          /\ pc' = "run"
          /\ next_record' = next_record + 1]_vars

\* a page was skipped on a title mismatch while facts were in the buffer and
\* external records were still ahead
C11_Witness ==
    /\ history # <<>>
    /\ history[Len(history)].outcome = "mismatch"
    /\ history[Len(history)].kind = "ContentPage"
    /\ batch_update # <<>>
    /\ bge3_dataset # <<>>

\* every fact appended so far or still to be appended for the page in hand
AllFacts == FactsAppended \o [k \in DOMAIN pending |-> pending[k].fact]

\* the pages aligned so far with a MongoDB sink given, as positions in history
AlignedPages ==
    {i \in DOMAIN history : history[i].outcome = "aligned" /\ mongodb_client}

\* the facts about the k-th paragraph (1-based) of the group of the page at
\* history position i: its node, and the edges that leave it
NodeFacts(i, k) ==
    SelectSeq(AllFacts, LAMBDA f : /\ f.op = "setOnInsert"
                                   /\ f.id = ParagraphId(history[i].title, k - 1))
EdgeFacts(i, k) ==
    SelectSeq(AllFacts, LAMBDA f : /\ f.op = "addToSet"
                                   /\ f.id = ParagraphId(history[i].title, k - 1))
CrossFacts(i, k) ==
    SelectSeq(EdgeFacts(i, k), LAMBDA f : f.ref_title # history[i].title)

\* the paragraphs of the group that the alignment loop matched and did not
\* match: the loop looks for paragraph k + 1 only once k is matched
Aligned(i) == 1..Len(history[i].matched)
Unaligned(i) == (Len(history[i].matched) + 1)..Len(history[i].group)

\* C12 as stated: an external paragraph of the group for which no candidate
\* scored above the threshold contributes no node and no edge.
C12_UnalignedParagraphEmitsNothing ==
    pc \in {"run", "emit", "done"} =>
        \A i \in AlignedPages : \A k \in Unaligned(i) :
            NodeFacts(i, k) = <<>> /\ EdgeFacts(i, k) = <<>>

\* C12, amended: a ParagraphNode is emitted for every external paragraph of
\* the group, aligned or not, with the text and the embedding of the external
\* record; only the cross-reference edges depend on the alignment: a
\* paragraph for which no candidate scored above the threshold has none.
C12_UnalignedParagraphEmitsNoCrossReference ==
    pc \in {"run", "emit", "done"} =>
        \A i \in AlignedPages :
            /\ \A k \in DOMAIN history[i].group :
                   /\ Len(NodeFacts(i, k)) = 1
                   /\ NodeFacts(i, k)[1].content = history[i].group[k].text
                   /\ NodeFacts(i, k)[1].embedding = history[i].group[k].embedding
            /\ \A k \in Unaligned(i) : CrossFacts(i, k) = <<>>

\* a page was aligned with a group one paragraph of which no candidate matched
C12_Witness ==
    /\ pc = "done"
    /\ \E i \in AlignedPages : Unaligned(i) # {} 

\* the in-group edges emitted for the page at history position i, as pairs
\* (id of the source paragraph, id of the target paragraph)
InGroupEdges(i) ==
    {<<AllFacts[x].id, AllFacts[x].ref_id>> :
        x \in {y \in DOMAIN AllFacts : /\ AllFacts[y].op = "addToSet"
                                       /\ AllFacts[y].ref_title = history[i].title}}

\* the in-group edges C13 describes for a group of n paragraphs of a title
ClaimedInGroupEdges(title, n) ==
    {<<ParagraphId(title, 0), ParagraphId(title, j)>> : j \in 1..(n - 1)}
    \cup {<<ParagraphId(title, k), ParagraphId(title, k + 1)>> : k \in 0..(n - 2)}

\* C13: for a group of n emitted paragraphs <title>_0 .. <title>_(n-1) the
\* in-group edges emitted are exactly those from paragraph 0 to every other
\* paragraph and from every paragraph but the last to its successor; the last
\* paragraph has no outgoing in-group edge and a group of one has none at all.
C13_InGroupEdges ==
    pc \in {"run", "emit", "done"} =>
        \A i \in AlignedPages :
            /\ InGroupEdges(i) = ClaimedInGroupEdges(history[i].title, Len(history[i].group))
            /\ \A e \in InGroupEdges(i) :
                   e[1] # ParagraphId(history[i].title, Len(history[i].group) - 1)

\* a page was aligned with a group of three paragraphs and all its facts
\* were appended
C13_Witness ==
    /\ pc = "done"
    /\ \E i \in AlignedPages :
           /\ Len(history[i].group) = 3
           /\ Cardinality(InGroupEdges(i)) = 3

\* C14: the namespace of every PageLocation the resolver returns is either
\* absent or a non-empty member of the namespace set it was given.
C14_NamespaceDeclaredOrAbsent ==
    \A i \in DOMAIN resolved :
        \/ resolved[i].location.namespace = None
        \/ /\ resolved[i].location.namespace \in declared_namespaces
           /\ resolved[i].location.namespace # <<>>

\* the text of a title before its first ":" and after it
BeforeColon(t) == Split(t, ":")[1]
AfterColon(t) == Suffix(t, Len(BeforeColon(t)) + 2)

\* the title carries the prefix of a namespace of the set given
HasDeclaredPrefix(t) ==
    /\ Find(t, <<":">>, 1) > 0
    /\ BeforeColon(t) # <<>>
    /\ BeforeColon(t) \in declared_namespaces

\* C15: for a raw title whose text before the first ':' is a declared
\* namespace, the title returned has the prefix stripped: it is the normalized
\* and capitalized remainder after the ':' and does not start with
\* '<namespace>:'.
C15_NamespacePrefixStripped ==
    \A i \in DOMAIN resolved :
        HasDeclaredPrefix(resolved[i].title) =>
            /\ resolved[i].location.title
                   = capitalize(Strip(CollapseSeparators(AfterColon(resolved[i].title))))
            /\ ~StartsWith(resolved[i].location.title,
                           BeforeColon(resolved[i].title) \o <<":">>)

\* C16: the resolver is idempotent: resolving the title of the location it
\* returned gives the same title and the same namespace again.
C16_ResolveIdempotent ==
    \A i \in DOMAIN resolved :
        resolved[i].kind = "again" => resolved[i].location = resolved[1].location

\* C17: two raw titles that differ only in the separator style between the
\* same words (a space, an underscore, or a run of either) resolve to the same
\* title and the same namespace.
C17_SeparatorStyleIrrelevant ==
    \A i \in DOMAIN resolved :
        resolved[i].kind = "restyled" => resolved[i].location = resolved[1].location

\* the dicts a value of a dict refers to
Refs(v) ==
    IF "ref" \in DOMAIN v THEN {v.ref}
    ELSE IF IsList(v)
    THEN {v.list[j].ref : j \in {i \in DOMAIN v.list : "ref" \in DOMAIN v.list[i]}}
    ELSE {}

\* the dicts the dict at place id of the heap refers to
Successors(id) == UNION {Refs(heap[id][k]) : k \in DOMAIN heap[id]}

\* the dicts that can be reached from the dicts of the set ids
RECURSIVE ReachableFrom(_)
ReachableFrom(ids) ==
    LET more == ids \cup UNION {Successors(id) : id \in ids}
    IN  IF more = ids THEN ids ELSE ReachableFrom(more)

\* what the handler holds: the dicts of self.breadcrumb and all below them
HeldByBuilder == ReachableFrom(Range(breadcrumb))

\* the nodes of the records the callback was given
Delivered == ReachableFrom(UNION {Refs(callbacks[i]) : i \in DOMAIN callbacks})

\* C18: at every point of a parse the dicts reachable from self.breadcrumb
\* hold the nodes of at most one top-level record and no node of a record the
\* callback was already given; between two records, once a callback was made,
\* self.breadcrumb is one empty dict.
C18_OneRecordAtATime ==
    /\ Cardinality(HeldByBuilder \cap Range(children)) <= 1
    /\ HeldByBuilder \cap Delivered = {}
    /\ (callbacks # <<>> /\ Len(open_elements) = 1 /\ parse = "parsing")
           => /\ Len(breadcrumb) = 1
              /\ heap[breadcrumb[1]] = EmptyDict

\* two records were delivered, one of them with a child node, and the parse ended
C18_Witness ==
    /\ parse = "done"
    /\ Len(callbacks) >= 2
    /\ Cardinality(Delivered) >= 3

\* the nodes created under the dict parent for elements called name, in
\* document order
ChildrenOf(parent, name) ==
    LET RECURSIVE Pick(_)
        Pick(i) ==
            IF i > Len(attached) THEN <<>>
            ELSE IF attached[i].parent = parent /\ attached[i].name = name
            THEN <<attached[i].node>> \o Pick(i + 1)
            ELSE Pick(i + 1)
    IN  Pick(1)

\* the nodes of elements that were opened and closed again
ClosedElements ==
    {attached[i].node : i \in DOMAIN attached} \ Range(breadcrumb)

\* the entry a closed parent is said to have for the children kids of one name
ClaimedEntry(kids) ==
    IF Len(kids) = 1 THEN DictRef(kids[1])
    ELSE ListValue([i \in DOMAIN kids |-> DictRef(kids[i])])

\* C19: once a parent element is closed, its entry for every child element
\* name that occurred under it is the one child node of that name, or the
\* list of all the child nodes of that name in document order.
C19_ChildrenKeptByName ==
    parse # "raised" =>
        \A parent \in ClosedElements : \A name \in ElementNames :
            LET kids == ChildrenOf(parent, name)
            IN  kids # <<>> =>
                    /\ name \in DOMAIN heap[parent]
                    /\ heap[parent][name] = ClaimedEntry(kids)

\* the ids of the paragraphs of the group of the page at history position i
GroupIds(i) == {ParagraphId(history[i].title, k - 1) : k \in 1..Len(history[i].group)}

\* the redirect pages handled so far, as positions in history
RedirectPagesHandled == {i \in DOMAIN history : history[i].kind = "RedirectPage"}

\* C20: no fact comes from a RedirectPage.  A redirect page is never aligned:
\* it ends at the title test, or with the StopIteration of line 286 or the
\* AttributeError of line 288; the appends
\* still to run belong to a ContentPage; and every fact appended so far or
\* still to be appended is a node or an edge of a paragraph of the group of a
\* ContentPage that was aligned.
C20_NoFactFromRedirectPage ==
    /\ \A i \in RedirectPagesHandled :
           /\ history[i].outcome \in {"mismatch", "raise"}
           /\ history[i].outcome = "raise"
                  => history[i].error \in {"StopIteration", "AttributeError"}
    /\ pending # <<>> => history[Len(history)].kind = "ContentPage"
    /\ \A k \in DOMAIN AllFacts :
           \E i \in ContentPagesHandled :
               /\ history[i].outcome = "aligned"
               /\ AllFacts[k].id \in GroupIds(i)

\* facts were appended for a content page, and then a redirect page whose
\* title is the title at the cursor was handled
C20_Witness ==
    /\ FactsAppended # <<>>
    /\ history[Len(history)].kind = "RedirectPage"
    /\ history[Len(history)].outcome = "raise"
    /\ history[Len(history)].error = "AttributeError"
    /\ history[Len(history)].group # <<>>

\* the records the mapper made a page of, as positions in history
PagesMapped == ContentPagesHandled \cup RedirectPagesHandled

\* C21: the progress monitor sees every page the mapper produced exactly once:
\* after any prefix of a run page_count is the number of content and redirect
\* pages mapped so far, whatever became of their alignment, metadata records
\* and records the mapper raised on are not counted, and last_page_count
\* never exceeds page_count.
C21_ProgressCountsMappedPages ==
    /\ page_count = Cardinality(PagesMapped)
    /\ last_page_count <= page_count
    /\ \A i \in DOMAIN history : history[i].outcome = "none" => i \notin PagesMapped

\* a metadata record, a page skipped at the title test and an aligned page
\* were handled, the display being refreshed for none or some of them
C21_Witness ==
    /\ \E i \in DOMAIN history : history[i].outcome = "none"
    /\ \E i \in DOMAIN history : history[i].outcome = "mismatch"
    /\ \E i \in DOMAIN history : history[i].outcome = "aligned"
    /\ page_count = 2
    /\ last_page_count < page_count

\* the record at next_record maps to a page whose title is the cursor's
TitleMatchAhead ==
    /\ Running
    /\ ElementMapper(dump[next_record], parse_page_location_fn).status = "page"
    /\ ElementMapper(dump[next_record], parse_page_location_fn).page.title
           = last_loaded_paragraph.title

\* the page at next_record is a content page that has a paragraph for every
\* record of the group at the cursor
EnoughParagraphsAhead ==
    /\ dump[next_record].redirect = None
    /\ Len(PageParagraphs(dump[next_record].text))
           >= RunLength(Ahead, last_loaded_paragraph.title)

\* C22: when a page's title is the cursor's, the group collected is the
\* maximal run of records of that title from the cursor on, in stream order,
\* and the cursor then stands on the first record of another title; for the
\* last group of the stream, where next() signals the end of the stream, the
\* group is collected all the same and the page is aligned.
C22_GroupIsMaximalRun ==
    [][TitleMatchAhead =>
          LET n == RunLength(Ahead, last_loaded_paragraph.title)
          IN  /\ history'[Len(history')].group = SubSeq(Ahead, 1, n)
              /\ n < Len(Ahead) => last_loaded_paragraph' = Ahead[n + 1]
              /\ (n = Len(Ahead) /\ EnoughParagraphsAhead)
                     => history'[Len(history')].outcome = "aligned"]_vars

\* score1 * score2 > 1/4 for the word sets ref and words, score1 being the
\* fraction of ref found in words and score2 the fraction of words found in ref
ProductAboveQuarter(ref, words) ==
    4 * Cardinality(ref \cap words) * Cardinality(words \cap ref)
        > Cardinality(ref) * Cardinality(words)

\* the candidate at position p of page_lines scores above the threshold
\* against an external paragraph of the given text
ScoresAt(page_lines, text, p) ==
    ProductAboveQuarter(
        RefParagraphWordSet(text),
        ContentWordSet(StripRefs(Candidate(page_lines, p, Count(text, NL)))))

\* the page position after which the k-th external paragraph is looked for,
\* m being the positions matched
ScanStart(m, k) == IF k = 1 THEN 0 ELSE m[k - 1]

\* the positions m matched for the external paragraphs group on the page
\* paragraphs page_lines are those of a greedy scan that keeps the order
GreedyOrdered(page_lines, group, m) ==
    /\ Len(m) <= Len(group)
    /\ \A k \in DOMAIN m :
           /\ m[k] \in (ScanStart(m, k) + 1)..Len(page_lines)
           /\ ScoresAt(page_lines, group[k].text, m[k])
           /\ \A p \in (ScanStart(m, k) + 1)..(m[k] - 1) :
                  ~ScoresAt(page_lines, group[k].text, p)
    /\ Len(m) < Len(group) =>
           \A p \in (ScanStart(m, Len(m) + 1) + 1)..Len(page_lines) :
               ~ScoresAt(page_lines, group[Len(m) + 1].text, p)

\* C23: alignment is greedy and keeps the order.  Whenever a content page is
\* aligned, the external paragraphs of its group are matched in order;
\* paragraph k is matched to the first page position after the one matched
\* to paragraph k - 1 whose candidate has score1 * score2 > 1/4; no page
\* position is matched twice; no more positions are matched than the group
\* has paragraphs; and the first paragraph left unmatched has no such
\* position in the rest of the page.
C23_GreedyOrderedAlignment ==
    [][(/\ Len(history') = Len(history) + 1
        /\ history'[Len(history')].kind = "ContentPage"
        /\ history'[Len(history')].outcome = "aligned")
          => GreedyOrdered(PageParagraphs(dump[next_record].text),
                           history'[Len(history')].group,
                           history'[Len(history')].matched)]_vars

\* a page was aligned whose first external paragraph was matched past the
\* first page position
C23_Witness ==
    \E i \in ContentPagesHandled :
        /\ history[i].outcome = "aligned"
        /\ history[i].matched # <<>>
        /\ history[i].matched[1] > 1

\* the join of the page paragraphs at the positions first..last, as far as
\* the page goes
JoinedLines(first, last) ==
    Join(SubSeq(lines_of_page, first,
                IF last < Len(lines_of_page) THEN last ELSE Len(lines_of_page)),
         <<NL>>)

\* C24: for an external paragraph whose text holds k >= 1 line breaks the
\* candidate compared at page position i is the join of the k + 1 page
\* paragraphs i .. i + k, fewer only when the page ends first; for k = 0 it is
\* the page paragraph i.
C24_CandidateSpansAllLines ==
    \A i \in DOMAIN compared :
        compared[i] = IF line_breaks = 0 THEN lines_of_page[i]
                      ELSE JoinedLines(i, i + line_breaks)

\* the record at next_record maps to a redirect page
RedirectAhead ==
    /\ Running
    /\ ElementMapper(dump[next_record], parse_page_location_fn).status = "page"
    /\ ElementMapper(dump[next_record], parse_page_location_fn).page.kind = "RedirectPage"

\* C25: processing a RedirectPage consumes no external record and does not
\* fail: the cursor and the iterator are after it where they were before, and
\* the run goes on, also when the redirect's title is the cursor's.
C25_RedirectLeavesCursor ==
    [][RedirectAhead =>
          /\ UNCHANGED <<last_loaded_paragraph, bge3_dataset>>
          /\ pc' = "run"
          /\ next_record' = next_record + 1]_vars

\* an element that has a node is closed and the parse goes on
ElementCloses ==
    /\ parse = "parsing"
    /\ parse' = "parsing"
    /\ Len(open_elements) >= 2
    /\ Len(open_elements') < Len(open_elements)

\* C26: the content given to the node of an element at its close is the
\* concatenation, in order, of the character data received directly inside
\* the element between its open and its close, whether it has child elements
\* or not.
C26_ContentIsOwnText ==
    [][ElementCloses =>
          heap'[breadcrumb[Len(breadcrumb)]]["content"]
              = StrValue(own_text[Len(own_text)])]_vars

=============================================================================
